---- MODULE Spec2Model ----
(***************************************************************************)
(* happychartsv2: the backtest-and-improve loop.                           *)
(*                                                                         *)
(*   main (src/src/main.rs) calls run_backtest_and_improve                 *)
(*   (src/src/backtest.rs) until the returned accuracy is >= 0.7 or ten    *)
(*   passes have completed.  A pass loads or fetches three candle series,  *)
(*   labels the ETH series (label_candles, src/src/lib.rs), queries the    *)
(*   model for every eligible 24-candle window with at most 20 calls in    *)
(*   flight, appends (prompt, accuracy) to the bounded history file and,   *)
(*   when a prediction was wrong, asks the model for a new prompt.         *)
(*                                                                         *)
(* Conventions.  Code indices are 0-based; At and Slice translate them to  *)
(* TLA+ sequences.  Prices are integers; a threshold multiplier m is kept  *)
(* as m * 100, so `x >= c * 1.05` reads `x * 100 >= c * 105`.  An f64      *)
(* accuracy correct/total is kept as the reduced fraction <<num, den>>;    *)
(* totals stay far below 2^53, so comparing fractions by cross             *)
(* multiplication agrees with the comparison of the rounded f64 values.    *)
(***************************************************************************)
EXTENDS Integers, Sequences, FiniteSets, TLC

(* ---------------------------- program constants ------------------------ *)
\* backtest.rs:17  const CANDLE_HOURS: usize = 24
CANDLE_HOURS == 24
\* backtest.rs:69  buffer_unordered(20)
BUFFER_LIMIT == 20
\* backtest.rs:110 if history.len() > 10
HISTORY_LIMIT == 10
\* main.rs:24  counter < 10
PASS_CAP == 10
\* main.rs:24  res < 0.7, as the fraction 7/10
TARGET_NUM == 7
TARGET_DEN == 10
\* lib.rs:13-14  LONG_THRESHOLD = 1.05, SHORT_THRESHOLD = 0.95, times 100
LONG_THRESHOLD == 105
SHORT_THRESHOLD == 95
THRESHOLD_SCALE == 100

(* ------------------------------- bounds -------------------------------- *)
\* the largest number of windows of a small series (ETH length CANDLE_HOURS + SmallWindows)
SmallWindows == 4
\* windows of the large series beyond BUFFER_LIMIT
OverLimit == 2
\* a window call completes while at most this many older calls are still in flight
MaxOvertake == 1
\* the longest series handed to the labeler on its own
MaxSeries == 3
\* process runs of main (the files persist from one run to the next)
MaxRuns == 2

(* ------------------------------ basic sets ----------------------------- *)
Symbols == {"ETH", "BTC", "SOL"}
Actions == {"Long", "Short", "None"}
\* a file: absent, or present with its content
NoFile == [exists |-> FALSE, data |-> <<>>]
File(data) == [exists |-> TRUE, data |-> data]
\* a local that holds no value yet: an accuracy, a prompt text
NoValue == <<0 - 1, 0>>
\* the f64 value 0.0 / 0.0
NaN == <<0, 0>>
NoPrompt == 0 - 1
NoError == "none"
NoSymbol == "none"

\* 0-based element and half-open 0-based slice s[lo..hi)
At(s, k) == s[k + 1]
Slice(s, lo, hi) == SubSeq(s, lo + 1, hi)
Reverse(s) == [k \in 1..Len(s) |-> s[Len(s) + 1 - k]]
Range(s) == {s[k] : k \in 1..Len(s)}
Min(a, b) == IF a < b THEN a ELSE b

RECURSIVE Gcd(_, _)
Gcd(a, b) == IF b = 0 THEN a ELSE Gcd(b, a % b)
\* the f64 value num/den (den > 0), reduced so that equal values are equal
Ratio(num, den) == LET g == Gcd(num, den) IN <<num \div g, den \div g>>
Zero == <<0, 1>>
Less(a, b) == a[1] * b[2] < b[1] * a[2]
Leq(a, b) == a[1] * b[2] <= b[1] * a[2]
TARGET == <<TARGET_NUM, TARGET_DEN>>

(* ------------------------- lib.rs: pure functions ---------------------- *)
\* CoinbaseCandle(time, low, high, open, close, volume) -> [time, open, high, low, close, volume]
CandleToArray(c) == <<c[1], c[4], c[3], c[2], c[5], c[6]>>

\* candles_to_array: reverse the feed, then reorder each candle's fields
candles_to_array(candles) ==
    LET rev == Reverse(candles)
    IN  [k \in 1..Len(rev) |-> CandleToArray(rev[k])]

\* indexes into the candle array (0-based in the code)
HIGH == 2
LOW == 3
CLOSE == 4

\* the closure of label_candles with the tie broken the other way: (true, true) => Long
PairLabelLongFirst(current, next) ==
    LET c_close == At(current, CLOSE)
        next_high == At(next, HIGH)
        next_low == At(next, LOW)
        long_cond == next_high * THRESHOLD_SCALE >= c_close * LONG_THRESHOLD
        short_cond == next_low * THRESHOLD_SCALE <= c_close * SHORT_THRESHOLD
    IN  CASE long_cond -> "Long"
          [] short_cond -> "Short"
          [] OTHER -> "None"

\* the closure of label_candles over one windows(2) pair
PairLabel(current, next) ==
    LET c_close == At(current, CLOSE)
        next_high == At(next, HIGH)
        next_low == At(next, LOW)
        long_cond == next_high * THRESHOLD_SCALE >= c_close * LONG_THRESHOLD
        short_cond == next_low * THRESHOLD_SCALE <= c_close * SHORT_THRESHOLD
    IN  CASE long_cond /\ short_cond -> "Short"
          [] long_cond /\ ~short_cond -> "Long"
          [] ~long_cond /\ short_cond -> "Short"
          [] OTHER -> "None"

\* label_candles without its trailing push(None)
LabelCandlesNoPush(data) ==
    [k \in 1..(Len(data) - 1) |-> PairLabel(data[k], data[k + 1])]

\* label_candles: one label per adjacent pair, then push(None)
label_candles(data) ==
    [k \in 1..(Len(data) - 1) |-> PairLabel(data[k], data[k + 1])] \o <<"None">>

(* ------------------- the environment: market data ---------------------- *)
\* What the exchange holds for a symbol at hour k (k = 0 is the oldest hour), as the
\* API's tuple (time, low, high, open, close, volume).  ETH closes at 1000 every
\* hour; the hour's high and low cycle through the four cases of the labeler.
EthShape(k) ==
    CASE k % 8 \in {0, 3} -> <<940, 1010>>      \* low breaks 0.95, high stays inside
      [] k % 8 \in {1, 7} -> <<940, 1060>>      \* both break
      [] k % 8 \in {2, 5} -> <<990, 1010>>      \* neither breaks
      [] OTHER            -> <<990, 1060>>      \* high breaks 1.05, low stays inside
ExchangeCandle(symbol, k) ==
    CASE symbol = "ETH" -> <<k, EthShape(k)[1], EthShape(k)[2], 1000, 1000, 5>>
      [] symbol = "BTC" -> <<k, 49900, 50100, 50000, 50000, 7>>
      [] OTHER          -> <<k, 149, 151, 150, 150, 9>>
\* the API answers most recent hour first: the n hours that end `now` hours after
\* the first request of the program
ExchangeFeed(symbol, n, now) == [j \in 1..n |-> ExchangeCandle(symbol, now + n - j)]

SmallLen == CANDLE_HOURS + SmallWindows
LargeLen == CANDLE_HOURS + BUFFER_LIMIT + OverLimit
EqualLengths(n) == [s \in Symbols |-> n]
\* how many hours the exchange returns for each symbol
Markets ==
    { EqualLengths(n) : n \in {CANDLE_HOURS - 1, CANDLE_HOURS, CANDLE_HOURS + 1,
                               SmallLen, LargeLen} }
    \cup { [EqualLengths(SmallLen) EXCEPT !["BTC"] = CANDLE_HOURS + 2],
           [EqualLengths(SmallLen) EXCEPT !["SOL"] = CANDLE_HOURS - 1] }

(* ------------------- the environment: the language model -------------- *)
\* How the model answers.  A window query under base prompt p for window i is
\* answered with the true label when the model is skilled under p and i is not a
\* blind spot, and with the fixed word `style` otherwise ("hold" is no action
\* name).  The improver returns the base prompt unchanged (echo) or a new text;
\* prompt texts are numbered, 0 being the text first found in prompt.txt.
Never == 0 - 1
Behaviour(style, good_from, echo, blind) ==
    [style |-> style, good_from |-> good_from, echo |-> echo, blind |-> blind]
Truthful == Behaviour("none", 0, FALSE, {})
BlindSpot == Behaviour("none", 0, FALSE, {CANDLE_HOURS})
Behaviours ==
    { Truthful, BlindSpot,
      Behaviour("long", 2, FALSE, {}),
      Behaviour("hold", Never, TRUE, {}) }
    \cup { Behaviour(s, Never, FALSE, {}) : s \in {"short", "hold"} }
\* the large market is run with the models that miss at most one window
Setups ==
    { su \in [market : Markets, model : Behaviours] :
        su.market["ETH"] = LargeLen => su.model \in {Truthful, BlindSpot} }

Lower(action) ==
    CASE action = "Long" -> "long" [] action = "Short" -> "short" [] OTHER -> "none"
Skilled(b, prompt) == b.good_from # Never /\ prompt >= b.good_from
ModelAnswer(b, prompt, i, label) ==
    IF Skilled(b, prompt) /\ i \notin b.blind THEN Lower(label) ELSE b.style

\* A response text of the model: possibly wrapped in code fences, its body either
\* no JSON at all or a JSON value whose "action" / "rationale" members are a
\* string, some other JSON value ("<number>") or missing ("<absent>").
Absent == "<absent>"
NonString == "<number>"
Text(fenced, body, action, rationale) ==
    [fenced |-> fenced, body |-> body, action |-> action, rationale |-> rationale]
Ok(text) == [ok |-> TRUE, text |-> text]
Err == [ok |-> FALSE, text |-> Text(FALSE, "garbage", Absent, Absent)]

\* what analyze_data_gpt(full_prompt, O1Mini) may return for window i
WindowResponses(b, prompt, i, label) ==
    {Err}
    \cup { Ok(Text(f, "garbage", Absent, Absent)) : f \in BOOLEAN }
    \cup { Ok(Text(f, "json", a, "why")) : f \in BOOLEAN, a \in {Absent, NonString} }
    \cup { Ok(Text(f, "json", ModelAnswer(b, prompt, i, label),
                   IF b.style = "hold" THEN Absent ELSE "why")) : f \in BOOLEAN }

\* what analyze_data_gpt(improvement_prompt, O1Preview) may return
ImproverErr == [ok |-> FALSE, text |-> 0]
ImproverResponses(b, prompt) ==
    {ImproverErr, Ok(IF b.echo THEN prompt ELSE prompt + 1)}

(* ------------------- backtest.rs: query_model_and_compare -------------- *)
\* response.replace("```json", "").replace("```", ""): the fences go, the body stays
StripFences(text) == [text EXCEPT !.fenced = FALSE]
\* serde_json::from_str(&clean_response) succeeds on a body that is JSON
ValidJson(clean) == ~clean.fenced /\ clean.body = "json"
\* val.get("action").and_then(|a| a.as_str()) is Some
HasActionStr(clean) == clean.action \notin {Absent, NonString}
\* match action_str { "long" => Long, "short" => Short, "none" => None, _ => None }
ParseAction(action_str) ==
    CASE action_str = "long" -> "Long"
      [] action_str = "short" -> "Short"
      [] action_str = "none" -> "None"
      [] OTHER -> "None"
Failed(error) ==
    [ok |-> FALSE, error |-> error, pred |-> "None", rationale |-> "", label |-> "None"]
\* query_model_and_compare with an action string it does not know made an error
QueryStrict(response, label) ==
    IF ~response.ok THEN Failed("model call failed")
    ELSE LET clean == StripFences(response.text)
         IN  IF ~ValidJson(clean) THEN Failed("Response not valid JSON")
             ELSE IF ~HasActionStr(clean) THEN Failed("Missing 'action' field in response")
             ELSE IF clean.action \notin {"long", "short", "none"}
                  THEN Failed("Unknown action")
             ELSE [ok |-> TRUE, error |-> NoError,
                   pred |-> ParseAction(clean.action),
                   rationale |-> IF clean.rationale \in {Absent, NonString}
                                 THEN "" ELSE clean.rationale,
                   label |-> label]

\* query_model_and_compare taking a missing action for the prediction None
QueryLenient(response, label) ==
    IF ~response.ok THEN Failed("model call failed")
    ELSE LET clean == StripFences(response.text)
         IN  IF ~ValidJson(clean) THEN Failed("Response not valid JSON")
             ELSE [ok |-> TRUE, error |-> NoError,
                   pred |-> ParseAction(clean.action),
                   rationale |-> IF clean.rationale \in {Absent, NonString}
                                 THEN "" ELSE clean.rationale,
                   label |-> label]

\* Ok((pred, rationale, label)), or the error of the call, of the JSON parse or of
\* the missing action
query_model_and_compare(response, label) ==
    IF ~response.ok THEN Failed("model call failed")
    ELSE LET clean == StripFences(response.text)
         IN  IF ~ValidJson(clean) THEN Failed("Response not valid JSON")
             ELSE IF ~HasActionStr(clean) THEN Failed("Missing 'action' field in response")
             ELSE [ok |-> TRUE, error |-> NoError,
                   pred |-> ParseAction(clean.action),
                   rationale |-> IF clean.rationale \in {Absent, NonString}
                                 THEN "" ELSE clean.rationale,
                   label |-> label]

(* ------------------------------- state --------------------------------- *)
VARIABLES
    setup,            \* the environment of this behaviour: market and model
    pc,               \* where the process is
    error,            \* the error the process ended with, or NoError
    runs,             \* process runs started
    \* files
    cache_file,       \* cache/<symbol>_data.json: NoFile or the raw feed
    prompt_file,      \* prompt.txt
    history_file,     \* cache/prompt_history.json: NoFile or the records
    \* main
    counter,
    res,              \* the accuracy the last completed pass returned, or NoValue
    \* run_backtest_and_improve
    eth_candles, btc_candles, sol_candles,
    labels,
    base_prompt,
    range_next,       \* the next i of (CANDLE_HOURS..eth_candles.len())
    in_progress,      \* buffer_unordered's queue of started window calls
    correct_count, total, failures,
    accuracy,
    \* history
    appended,         \* every record ever written to the history file, in order
    yielded,          \* the windows whose result this pass has consumed
    at_start,         \* prompt_file and history_file when this pass started
    improver_calls,   \* improver calls made by this pass
    passes,           \* passes started by this run
    fetching,         \* the symbol get_candle_data was called for in the last step
    completed         \* passes that returned Ok since the history file was absent

files == <<cache_file, prompt_file, history_file>>
main_vars == <<counter, res>>
pass_vars == <<eth_candles, btc_candles, sol_candles, labels, base_prompt, range_next,
               in_progress, correct_count, total, failures, accuracy>>
ghost_vars == <<appended, yielded, at_start, improver_calls, passes>>
vars == <<setup, pc, error, runs, files, main_vars, pass_vars, ghost_vars, fetching, completed>>

\* the locals of a pass before its first statement
FreshPass ==
    /\ eth_candles' = <<>> /\ btc_candles' = <<>> /\ sol_candles' = <<>>
    /\ labels' = <<>>
    /\ base_prompt' = NoPrompt
    /\ range_next' = CANDLE_HOURS
    /\ in_progress' = {}
    /\ correct_count' = 0 /\ total' = 0 /\ failures' = <<>>
    /\ accuracy' = NoValue
    /\ yielded' = {}
    /\ improver_calls' = 0

Init ==
    /\ setup \in Setups
    /\ pc = "main"
    /\ error = NoError
    /\ runs = 1
    /\ cache_file = [s \in Symbols |-> NoFile]
    /\ prompt_file = 0
    /\ history_file = NoFile
    /\ counter = 0 /\ res = NoValue
    /\ eth_candles = <<>> /\ btc_candles = <<>> /\ sol_candles = <<>>
    /\ labels = <<>>
    /\ base_prompt = NoPrompt
    /\ range_next = CANDLE_HOURS
    /\ in_progress = {}
    /\ correct_count = 0 /\ total = 0 /\ failures = <<>>
    /\ accuracy = NoValue
    /\ appended = <<>>
    /\ yielded = {}
    /\ at_start = [prompt |-> 0, history |-> NoFile]
    /\ improver_calls = 0
    /\ passes = 0
    /\ fetching = NoSymbol
    /\ completed = 0

(* ------------------- backtest.rs: load_or_fetch ------------------------ *)
Loaded(candles) == [ok |-> TRUE, candles |-> candles]
LoadErr == [ok |-> FALSE, candles |-> <<>>]
\* backtest.rs:33-34  end = Utc::now() - 48 h: each run of the program asks for a
\* range one hour later than the run before (the BTC and SOL prices are flat, and
\* their feeds are taken to read the same at every hour)
Now(symbol) == IF symbol = "ETH" THEN runs - 1 ELSE 0
\* what get_candle_data(symbol, start, end) may return
FetchResults(symbol) ==
    {LoadErr, Loaded(ExchangeFeed(symbol, setup.market[symbol], Now(symbol)))}
\* what reading and deserializing an existing cache file may return
ReadResults(symbol) == {LoadErr, Loaded(cache_file[symbol].data)}

\* backtest.rs:144 with the test lost: the cache file is never found
CacheNever(symbol) == FALSE
\* backtest.rs:144  Path::new(&cache_file).exists()
CacheHit(symbol) == cache_file[symbol].exists

\* load_or_fetch(symbol), one call: the cache file is read when it exists; otherwise
\* the exchange is asked and its answer written to the cache file
\* the error of a failed load_or_fetch
LoadError(symbol) ==
    IF CacheHit(symbol) THEN "cache file unreadable" ELSE "fetch failed"
LoadResults(symbol) ==
    IF CacheHit(symbol) THEN ReadResults(symbol) ELSE FetchResults(symbol)
load_or_fetch(symbol, result) ==
    IF CacheHit(symbol)
    THEN /\ fetching' = NoSymbol
         /\ UNCHANGED cache_file
    ELSE /\ fetching' = symbol
         /\ cache_file' = IF result.ok
                          THEN [cache_file EXCEPT ![symbol] = File(result.candles)]
                          ELSE cache_file

(* ------------------- main.rs: the loop --------------------------------- *)
\* main.rs:16 with the error of a pass dropped instead of returned by `?`: the loop
\* goes on to the next pass
CallPassAfterError ==
    /\ pc \in {"main", "failed"}
    /\ pc' = "load_eth"
    /\ FreshPass
    /\ at_start' = [prompt |-> prompt_file, history |-> history_file]
    /\ passes' = passes + 1
    /\ UNCHANGED <<fetching, completed, setup, error, runs, files, main_vars, appended>>

\* main.rs:16  the loop body calls run_backtest_and_improve()
CallPass ==
    /\ pc = "main"
    /\ pc' = "load_eth"
    /\ FreshPass
    /\ at_start' = [prompt |-> prompt_file, history |-> history_file]
    /\ passes' = passes + 1
    /\ UNCHANGED <<fetching, completed, setup, error, runs, files, main_vars, appended>>

(* ------------------- backtest.rs: run_backtest_and_improve ------------- *)
\* backtest.rs:37
LoadEth ==
    /\ pc = "load_eth"
    /\ \E result \in LoadResults("ETH") :
         /\ load_or_fetch("ETH", result)
         /\ IF result.ok
            THEN /\ eth_candles' = candles_to_array(result.candles)
                 /\ pc' = "load_btc"
                 /\ UNCHANGED error
            ELSE /\ pc' = "failed"
                 /\ error' = LoadError("ETH")
                 /\ UNCHANGED eth_candles
    /\ UNCHANGED <<completed, setup, runs, prompt_file, history_file, main_vars, btc_candles,
                   sol_candles, labels, base_prompt, range_next, in_progress,
                   correct_count, total, failures, accuracy, ghost_vars>>

\* backtest.rs:38
LoadBtc ==
    /\ pc = "load_btc"
    /\ \E result \in LoadResults("BTC") :
         /\ load_or_fetch("BTC", result)
         /\ IF result.ok
            THEN /\ btc_candles' = candles_to_array(result.candles)
                 /\ pc' = "load_sol"
                 /\ UNCHANGED error
            ELSE /\ pc' = "failed"
                 /\ error' = LoadError("BTC")
                 /\ UNCHANGED btc_candles
    /\ UNCHANGED <<completed, setup, runs, prompt_file, history_file, main_vars, eth_candles,
                   sol_candles, labels, base_prompt, range_next, in_progress,
                   correct_count, total, failures, accuracy, ghost_vars>>

\* backtest.rs:39
LoadSol ==
    /\ pc = "load_sol"
    /\ \E result \in LoadResults("SOL") :
         /\ load_or_fetch("SOL", result)
         /\ IF result.ok
            THEN /\ sol_candles' = candles_to_array(result.candles)
                 /\ pc' = "prepare"
                 /\ UNCHANGED error
            ELSE /\ pc' = "failed"
                 /\ error' = LoadError("SOL")
                 /\ UNCHANGED sol_candles
    /\ UNCHANGED <<completed, setup, runs, prompt_file, history_file, main_vars, eth_candles,
                   btc_candles, labels, base_prompt, range_next, in_progress,
                   correct_count, total, failures, accuracy, ghost_vars>>

\* backtest.rs:44 asking for a candle more than the window: len() <= CANDLE_HOURS
TooFewForOneWindow(eth) == Len(eth) <= CANDLE_HOURS

\* backtest.rs:44  eth_candles.len() < CANDLE_HOURS
TooFewCandles(eth) == Len(eth) < CANDLE_HOURS

\* backtest.rs:41-49 with prompt.txt read before the length of the ETH series is
\* checked
PrepareReadFirst ==
    /\ pc = "prepare"
    /\ fetching' = NoSymbol
    /\ labels' = label_candles(eth_candles)
    /\ \E read_ok \in BOOLEAN :
         IF ~read_ok
         THEN /\ pc' = "failed"
              /\ error' = "Failed to read base prompt file"
              /\ UNCHANGED base_prompt
         ELSE IF TooFewCandles(eth_candles)
         THEN /\ pc' = "failed"
              /\ error' = "Not enough ETH candles to perform backtesting"
              /\ base_prompt' = prompt_file
         ELSE /\ pc' = "poll"
              /\ base_prompt' = prompt_file
              /\ UNCHANGED error
    /\ UNCHANGED <<completed, setup, runs, files, main_vars, eth_candles, btc_candles,
                   sol_candles, range_next, in_progress, correct_count, total,
                   failures, accuracy, ghost_vars>>

\* backtest.rs:41-49  label the ETH series, check its length, read prompt.txt
\* (read_ok: whether fs::read_to_string(PROMPT_FILE) succeeds)
Prepare ==
    /\ pc = "prepare"
    /\ fetching' = NoSymbol
    /\ labels' = label_candles(eth_candles)
    /\ \E read_ok \in BOOLEAN :
         IF TooFewCandles(eth_candles)
         THEN /\ pc' = "failed"
              /\ error' = "Not enough ETH candles to perform backtesting"
              /\ UNCHANGED base_prompt
         ELSE IF ~read_ok
         THEN /\ pc' = "failed"
              /\ error' = "Failed to read base prompt file"
              /\ UNCHANGED base_prompt
         ELSE /\ pc' = "poll"
              /\ base_prompt' = prompt_file
              /\ UNCHANGED error
    /\ UNCHANGED <<completed, setup, runs, files, main_vars, eth_candles, btc_candles,
                   sol_candles, range_next, in_progress, correct_count, total,
                   failures, accuracy, ghost_vars>>

\* backtest.rs:53 testing the BTC series only
SkippedBtcOnly(i) == Len(btc_candles) < i

\* backtest.rs:53  the window ending at i is skipped
Skipped(i) == Len(btc_candles) < i \/ Len(sol_candles) < i

\* backtest.rs:57-65 with the label taken one place later: label = labels[i]
TaskLabelOfNext(i) ==
    [i |-> i, lo |-> i - CANDLE_HOURS, hi |-> i, prompt |-> base_prompt,
     label |-> At(labels, i)]

\* backtest.rs:57-65  the future of window i: the three slices [i - 24, i), the
\* prompt built from them and from base_prompt, and label = labels[i - 1]
Task(i) ==
    [i |-> i, lo |-> i - CANDLE_HOURS, hi |-> i, prompt |-> base_prompt,
     label |-> At(labels, i - 1)]

\* backtest.rs:69 without the ceiling: every future of the iterator is started at once
FillUnbounded(queue, next) ==
    LET rest == {i \in next..(Len(eth_candles) - 1) : ~Skipped(i)}
    IN  [queue |-> queue \cup {Task(i) : i \in rest},
         next |-> IF next > Len(eth_candles) THEN next ELSE Len(eth_candles)]

\* BufferUnordered::poll_next, first half: futures are pulled from the filter_map
\* iterator and pushed to the queue while the queue holds fewer than `limit`
RECURSIVE FillQueue(_, _, _)
FillQueue(queue, next, limit) ==
    IF Cardinality(queue) >= limit \/ next >= Len(eth_candles)
    THEN [queue |-> queue, next |-> next]
    ELSE IF Skipped(next)
         THEN FillQueue(queue, next + 1, limit)
         ELSE FillQueue(queue \cup {Task(next)}, next + 1, limit)

\* backtest.rs:69  buffer_unordered(20)
Fill(queue, next) == FillQueue(queue, next, BUFFER_LIMIT)

\* backtest.rs:76 with the stream ending as soon as the iterator is at its end,
\* whatever is still in the queue
PollEndsEarly ==
    /\ pc = "poll"
    /\ LET f == Fill(in_progress, range_next)
       IN  /\ in_progress' = f.queue
           /\ range_next' = f.next
           /\ pc' = IF f.next >= Len(eth_candles) THEN "score" ELSE "await"
    /\ UNCHANGED <<fetching, completed, setup, error, runs, files, main_vars,
                   eth_candles, btc_candles, sol_candles, labels, base_prompt,
                   correct_count, total, failures, accuracy, ghost_vars>>

\* backtest.rs:76  results.next().await is polled: the queue is filled; with nothing
\* in the queue and the iterator at its end the stream ends and the loop is left
Poll ==
    /\ pc = "poll"
    /\ LET f == Fill(in_progress, range_next)
       IN  /\ in_progress' = f.queue
           /\ range_next' = f.next
           /\ pc' = IF f.queue = {} THEN "score" ELSE "await"
    /\ UNCHANGED <<fetching, completed, setup, error, runs, files, main_vars, eth_candles, btc_candles,
                   sol_candles, labels, base_prompt, correct_count, total,
                   failures, accuracy, ghost_vars>>

\* the calls of the queue that may be the next to complete
MayComplete(queue) ==
    { t \in queue : Cardinality({u \in queue : u.i < t.i}) <= MaxOvertake }

\* backtest.rs:79-83 with the result attributed to its place in the completion order
\* instead of the index it carries
TallyByArrival(out, i, acc) ==
    IF out.pred = out.label
    THEN [acc EXCEPT !.total = @ + 1, !.correct_count = @ + 1]
    ELSE [acc EXCEPT !.total = @ + 1,
                     !.failures = Append(@, <<CANDLE_HOURS + acc.total, out.pred,
                                              out.label, out.rationale>>)]

\* backtest.rs:79-83  the loop body on Ok((i, (pred, rationale, label)))
Tally(out, i, acc) ==
    IF out.pred = out.label
    THEN [acc EXCEPT !.total = @ + 1, !.correct_count = @ + 1]
    ELSE [acc EXCEPT !.total = @ + 1,
                     !.failures = Append(@, <<i, out.pred, out.label, out.rationale>>)]

\* backtest.rs:76-84  one call of the queue completes and results.next() yields it:
\* an Err leaves the function (res?), an Ok is tallied
Yield ==
    /\ pc = "await"
    /\ \E t \in MayComplete(in_progress) :
       \E response \in WindowResponses(setup.model, t.prompt, t.i, t.label) :
         LET out == query_model_and_compare(response, t.label)
             acc == Tally(out, t.i, [total |-> total, correct_count |-> correct_count,
                                     failures |-> failures])
         IN  IF out.ok
             THEN /\ in_progress' = in_progress \ {t}
                  /\ total' = acc.total
                  /\ correct_count' = acc.correct_count
                  /\ failures' = acc.failures
                  /\ yielded' = yielded \cup {t.i}
                  /\ pc' = "poll"
                  /\ UNCHANGED error
             ELSE /\ in_progress' = {}
                  /\ pc' = "failed"
                  /\ error' = out.error
                  /\ UNCHANGED <<total, correct_count, failures, yielded>>
    /\ UNCHANGED <<fetching, completed, setup, runs, files, main_vars, eth_candles, btc_candles,
                   sol_candles, labels, base_prompt, range_next, accuracy,
                   appended, at_start, improver_calls, passes>>

\* backtest.rs:86-90 without the total > 0 test
AccuracyUnguarded(correct, n) == IF n > 0 THEN Ratio(correct, n) ELSE NaN

\* backtest.rs:86-90
Accuracy(correct, n) == IF n > 0 THEN Ratio(correct, n) ELSE Zero

\* backtest.rs:96-101  the history read from the file, empty without a file
LoadHistory == IF history_file.exists THEN history_file.data ELSE <<>>

\* backtest.rs:110-113 truncating at the wrong end: history[..10]
KeepFirst(history) ==
    IF Len(history) > HISTORY_LIMIT THEN SubSeq(history, 1, HISTORY_LIMIT) ELSE history

\* backtest.rs:110-113  keep only the last 10
KeepLast(history) ==
    IF Len(history) > HISTORY_LIMIT
    THEN SubSeq(history, Len(history) - HISTORY_LIMIT + 1, Len(history))
    ELSE history

PromptRecord(prompt, score) == [prompt |-> prompt, score |-> score]

\* backtest.rs:104-113 pushing only a prompt the history does not hold yet
UpdateHistoryDedup(history, prompt, score) ==
    IF \E k \in 1..Len(history) : history[k].prompt = prompt
    THEN history
    ELSE KeepLast(Append(history, PromptRecord(prompt, score)))

\* backtest.rs:104-113  push the record, truncate
UpdateHistory(history, prompt, score) ==
    KeepLast(Append(history, PromptRecord(prompt, score)))

\* backtest.rs:119 with the test lost: the improver runs after every pass
AlwaysImprove(failed) == TRUE

\* backtest.rs:119 with the improver left out on the pass that ends the loop of main
NotOnLastPass(failed) ==
    /\ failed # <<>>
    /\ Less(Accuracy(correct_count, total), TARGET)
    /\ counter + 1 < PASS_CAP

\* backtest.rs:119  if !failures.is_empty()
NeedsImprovement(failed) == failed # <<>>

\* backtest.rs:86-119 with the improver asked before the history is updated: a pass
\* with failures goes to the improver with the history file as it found it
ScoreImproveFirst ==
    /\ pc = "score"
    /\ accuracy' = Accuracy(correct_count, total)
    /\ IF NeedsImprovement(failures)
       THEN /\ pc' = "improve"
            /\ UNCHANGED <<history_file, appended>>
       ELSE /\ pc' = "return"
            /\ history_file' = File(UpdateHistory(LoadHistory, base_prompt, accuracy'))
            /\ appended' = Append(appended, PromptRecord(base_prompt, accuracy'))
    /\ UNCHANGED <<fetching, completed, setup, error, runs, cache_file, prompt_file,
                   main_vars, eth_candles, btc_candles, sol_candles, labels,
                   base_prompt, range_next, in_progress, correct_count, total,
                   failures, yielded, at_start, improver_calls, passes>>

\* backtest.rs:86-119  the loop is left: the accuracy is computed, the history file
\* rewritten, and the improver is asked when there are failures
Score ==
    /\ pc = "score"
    /\ accuracy' = Accuracy(correct_count, total)
    /\ history_file' = File(UpdateHistory(LoadHistory, base_prompt, accuracy'))
    /\ appended' = Append(appended, PromptRecord(base_prompt, accuracy'))
    /\ pc' = IF NeedsImprovement(failures) THEN "improve" ELSE "return"
    /\ UNCHANGED <<fetching, completed, setup, error, runs, cache_file, prompt_file, main_vars, eth_candles,
                   btc_candles, sol_candles, labels, base_prompt, range_next,
                   in_progress, correct_count, total, failures, yielded, at_start,
                   improver_calls, passes>>

\* backtest.rs:128-131  the improver is called and its text written to prompt.txt
Improve ==
    /\ pc = "improve"
    /\ improver_calls' = improver_calls + 1
    /\ \E response \in ImproverResponses(setup.model, base_prompt) :
         IF response.ok
         THEN /\ prompt_file' = response.text
              /\ pc' = "return"
              /\ UNCHANGED error
         ELSE /\ pc' = "failed"
              /\ error' = "model call failed"
              /\ UNCHANGED prompt_file
    /\ UNCHANGED <<fetching, completed, setup, runs, cache_file, history_file, main_vars, pass_vars,
                   appended, yielded, at_start, passes>>

\* main.rs:24 without the accuracy test
KeepGoingToCap(r, c) == c < PASS_CAP
\* main.rs:24 with the cap one pass short
KeepGoingShort(r, c) == Less(r, TARGET) /\ c < PASS_CAP - 1

\* main.rs:24  the loop goes on
KeepGoing(r, c) == Less(r, TARGET) /\ c < PASS_CAP

\* backtest.rs:135 and main.rs:16-25  the pass returns Ok(accuracy); main counts it
\* and either calls the next pass or leaves the loop and returns Ok(())
Return ==
    /\ pc = "return"
    /\ res' = accuracy
    /\ counter' = counter + 1
    /\ completed' = completed + 1
    /\ pc' = IF KeepGoing(res', counter') THEN "main" ELSE "done"
    /\ UNCHANGED <<fetching, setup, error, runs, files, pass_vars, ghost_vars>>

\* The program is run again, a new process over the files the last one left: after
\* a run that ended well, or after one that failed in its first pass.  (A run that
\* failed before it stored the ETH feed left no file behind: the run after it is a
\* first run.)
Rerun ==
    /\ pc = "done" \/ (pc = "failed" /\ counter = 0 /\ cache_file["ETH"].exists)
    /\ runs < MaxRuns
    /\ runs' = runs + 1
    /\ pc' = "main"
    /\ error' = NoError
    /\ counter' = 0 /\ res' = NoValue
    /\ FreshPass
    /\ passes' = 0
    /\ fetching' = NoSymbol
    /\ at_start' = [prompt |-> prompt_file, history |-> history_file]
    /\ UNCHANGED <<completed, setup, files, appended>>

Step ==
    \/ CallPass \/ LoadEth \/ LoadBtc \/ LoadSol \/ Prepare
    \/ Poll \/ Yield \/ Score \/ Improve \/ Return

Next == Step \/ Rerun

Spec == Init /\ [][Next]_vars

\* one run of the program in which every call returns and the process is scheduled
FairSpec == Init /\ [][Step]_vars /\ WF_vars(Step)

(* ------------------- the labeler on its own ---------------------------- *)
\* candle arrays [time, open, high, low, close, volume] around a close of 1000: the
\* highs and lows lie on and next to the two thresholds; one more candle is that of
\* test_label_candles_long_condition (a high 1 % above the close, a low at the close)
TestCandles ==
    { <<0, 1000, high, low, close, 5>> :
        high \in {1049, 1050}, low \in {950, 951}, close \in {1000, 1001} }
    \cup { <<0, 1000, 1010, 1000, 1000, 5>> }
TestSeries == UNION { [1..n -> TestCandles] : n \in 0..MaxSeries }

LabelInit ==
    /\ setup = [market |-> EqualLengths(0), model |-> Truthful]
    /\ pc = "label"
    /\ error = NoError
    /\ runs = 1
    /\ cache_file = [s \in Symbols |-> NoFile]
    /\ prompt_file = 0
    /\ history_file = NoFile
    /\ counter = 0 /\ res = NoValue
    /\ eth_candles \in TestSeries
    /\ btc_candles = <<>> /\ sol_candles = <<>>
    /\ labels = <<>>
    /\ base_prompt = NoPrompt
    /\ range_next = CANDLE_HOURS
    /\ in_progress = {}
    /\ correct_count = 0 /\ total = 0 /\ failures = <<>>
    /\ accuracy = NoValue
    /\ appended = <<>>
    /\ yielded = {}
    /\ at_start = [prompt |-> 0, history |-> NoFile]
    /\ improver_calls = 0
    /\ passes = 0
    /\ fetching = NoSymbol
    /\ completed = 0

\* backtest.rs:42  let labels = label_candles(&eth_candles)
Label ==
    /\ pc = "label"
    /\ labels' = label_candles(eth_candles)
    /\ pc' = "labelled"
    /\ UNCHANGED <<fetching, completed, setup, error, runs, files, main_vars, eth_candles, btc_candles,
                   sol_candles, base_prompt, range_next, in_progress, correct_count,
                   total, failures, accuracy, ghost_vars>>

LabelSpec == LabelInit /\ [][Label]_vars

(* ------------------- the conversion on its own ------------------------- *)
\* candles as the API sends them, (time, low, high, open, close, volume), the four
\* prices all different
TestFeedCandles ==
    { <<time, 90 + v, 110 + v, 100, 105, 5>> : time \in 0..MaxSeries, v \in {0, 1} }
\* feeds in any order of their times
TestFeeds == UNION { [1..n -> TestFeedCandles] : n \in 0..MaxSeries }

ConvertInit ==
    /\ setup = [market |-> EqualLengths(0), model |-> Truthful]
    /\ pc = "convert"
    /\ error = NoError
    /\ runs = 1
    /\ \E feed \in TestFeeds :
         cache_file = [s \in Symbols |-> IF s = "ETH" THEN File(feed) ELSE NoFile]
    /\ prompt_file = 0
    /\ history_file = NoFile
    /\ counter = 0 /\ res = NoValue
    /\ eth_candles = <<>> /\ btc_candles = <<>> /\ sol_candles = <<>>
    /\ labels = <<>>
    /\ base_prompt = NoPrompt
    /\ range_next = CANDLE_HOURS
    /\ in_progress = {}
    /\ correct_count = 0 /\ total = 0 /\ failures = <<>>
    /\ accuracy = NoValue
    /\ appended = <<>>
    /\ yielded = {}
    /\ at_start = [prompt |-> 0, history |-> NoFile]
    /\ improver_calls = 0
    /\ passes = 0
    /\ fetching = NoSymbol
    /\ completed = 0

\* backtest.rs:37  let eth_candles = candles_to_array(<the feed loaded>)
Convert ==
    /\ pc = "convert"
    /\ eth_candles' = candles_to_array(cache_file["ETH"].data)
    /\ pc' = "converted"
    /\ UNCHANGED <<fetching, completed, setup, error, runs, files, main_vars,
                   btc_candles, sol_candles, labels, base_prompt, range_next,
                   in_progress, correct_count, total, failures, accuracy, ghost_vars>>

ConvertSpec == ConvertInit /\ [][Convert]_vars

(* ============================== claims ================================= *)
InPass == pc \in {"load_eth", "load_btc", "load_sol", "prepare", "poll", "await",
                  "score", "improve", "return"}
Terminal == pc \in {"done", "failed"}
Scored == pc \in {"improve", "return"}
\* the window indices a pass has to score
EligibleWindows ==
    { i \in CANDLE_HOURS..(Len(eth_candles) - 1) :
        Len(btc_candles) >= i /\ Len(sol_candles) >= i }

\* C1: the history file never holds more than 10 records, and they are the most
\* recently appended records in the order of their appending (when there are more
\* than 10 the oldest are gone, whatever their scores).
C1_LedgerKeepsLastTen ==
    /\ ~history_file.exists => appended = <<>>
    /\ history_file.exists =>
         LET ledger == history_file.data
             n == Len(appended)
         IN  /\ Len(ledger) <= HISTORY_LIMIT
             /\ Len(ledger) = Min(n, HISTORY_LIMIT)
             /\ \A k \in 1..Len(ledger) : ledger[k] = appended[n - Len(ledger) + k]
\* an eleventh record was appended and the first one is gone
C1_Witness ==
    /\ pc = "return"
    /\ Len(appended) > HISTORY_LIMIT
    /\ history_file.data[1] # appended[1]
    /\ history_file.data[HISTORY_LIMIT] = appended[Len(appended)]

\* C2: a run starts at least 1 and at most 10 passes; a pass is started only while
\* no completed pass of the run has returned an accuracy >= 0.7; the loop is left at
\* the first completed pass that reaches 0.7 or at the tenth, whichever comes first.
C2_PassesBounded ==
    /\ passes <= PASS_CAP
    /\ passes = counter + (IF InPass \/ pc = "failed" THEN 1 ELSE 0)
    /\ Terminal => passes >= 1
    /\ (InPass \/ pc \in {"main", "failed"}) /\ res # NoValue => Less(res, TARGET)
    /\ pc = "main" => counter < PASS_CAP
    /\ pc = "done" =>
         /\ counter >= 1
         /\ Leq(TARGET, res) \/ counter = PASS_CAP
         /\ Len(appended) >= counter
         /\ appended[Len(appended)].score = res
         /\ \A k \in 1..(counter - 1) :
              Less(appended[Len(appended) - counter + k].score, TARGET)
\* the loop was left before the cap by a pass that reached the threshold
C2_Witness ==
    /\ pc = "done"
    /\ counter > 1 /\ counter < PASS_CAP
    /\ Leq(TARGET, res)

\* C3: when every call returns, the driver ends: with Ok after a pass whose accuracy
\* is >= 0.7 (Converged), with Ok after the tenth pass when that pass too stayed
\* below 0.7 (Exhausted), or with the error of a pass that did not complete.
Converged == pc = "done" /\ Leq(TARGET, res)
Exhausted == pc = "done" /\ Less(res, TARGET)
C3_DriverEnds ==
    /\ (~Terminal) ~> Terminal
    /\ [](pc = "done" => /\ Converged \/ Exhausted
                         /\ res = accuracy
                         /\ error = NoError)
    /\ [](Exhausted => counter = PASS_CAP)
    /\ [](pc = "failed" => error # NoError /\ passes = counter + 1)
C3_Witness == Exhausted /\ counter = PASS_CAP /\ Len(appended) = PASS_CAP

\* C4: a pass that completes without a failure never called the improver and leaves
\* prompt.txt as it was when the pass started.
C4_NoFailuresNoRewrite ==
    pc = "return" /\ failures = <<>> =>
        /\ improver_calls = 0
        /\ prompt_file = at_start.prompt
\* a pass that scored windows and got every one right
C4_Witness == pc = "return" /\ failures = <<>> /\ total > 0

\* C5: a pass that ends with an error has changed neither the history file nor
\* prompt.txt.
C5_AbortedPassLeavesFiles ==
    pc = "failed" => /\ history_file = at_start.history
                     /\ prompt_file = at_start.prompt

\* C6: a window response that is no JSON once the code fences are stripped, or that
\* has no string "action", is an error of the whole pass and nothing else is (a
\* fenced JSON response with a string action is scored); the step that meets it
\* tallies nothing, and the pass ends with no accuracy, no record appended and no
\* improver call, however many windows were scored before.
Malformed(response) ==
    response.ok /\ (response.text.body # "json"
                    \/ response.text.action \in {Absent, NonString})
MalformedErrors == {"Response not valid JSON", "Missing 'action' field in response"}
C6_MalformedAbortsPass ==
    /\ [](\A t \in in_progress :
          \A r \in WindowResponses(setup.model, t.prompt, t.i, t.label) :
            r.ok => (Malformed(r) <=> ~query_model_and_compare(r, t.label).ok))
    /\ [][pc = "await" /\ pc' = "failed" /\ error' \in MalformedErrors =>
            /\ total' = total /\ correct_count' = correct_count
            /\ failures' = failures
            /\ appended' = appended]_vars
    /\ [](pc = "failed" /\ error \in MalformedErrors =>
            /\ accuracy = NoValue
            /\ history_file = at_start.history
            /\ prompt_file = at_start.prompt
            /\ improver_calls = 0
            /\ total = Len(failures) + correct_count)
\* a malformed response after other windows were scored, one of them wrongly
C6_Witness ==
    /\ pc = "failed"
    /\ error = "Missing 'action' field in response"
    /\ total > 1 /\ failures # <<>>

\* C7: at most 20 window calls are in the queue at any moment; the windows started
\* never outnumber the completed ones by more than 20, so a window after the first
\* 20 is started only once a call has completed.
C7_AtMostTwentyInFlight ==
    LET started == yielded \cup {t.i : t \in in_progress}
    IN  /\ Cardinality(in_progress) <= BUFFER_LIMIT
        /\ yielded \cap {t.i : t \in in_progress} = {}
        /\ Cardinality(started) <= BUFFER_LIMIT + Cardinality(yielded)
        /\ Cardinality(started) > BUFFER_LIMIT => yielded # {}
\* the queue is full again after a completion let a window beyond the first 20 start
C7_Witness ==
    /\ Cardinality(in_progress) = BUFFER_LIMIT
    /\ yielded # {}
    /\ \E t \in in_progress : t.i >= CANDLE_HOURS + BUFFER_LIMIT

\* C8: whatever the order in which the window calls complete, the pass counts window
\* i as correct exactly when the model's prediction for window i equals
\* labels[i - 1]: total, correct_count, the accuracy and the set of failures
\* (i, prediction, labels[i - 1]) are those of the windows, not of the order.
Prediction(i) ==
    ParseAction(ModelAnswer(setup.model, base_prompt, i, At(labels, i - 1)))
C8_OrderIndependent ==
    pc \in {"score", "improve", "return"} =>
        LET wrong == {i \in EligibleWindows : Prediction(i) # At(labels, i - 1)}
        IN  /\ total = Cardinality(EligibleWindows)
            /\ correct_count = Cardinality(EligibleWindows \ wrong)
            /\ Len(failures) = Cardinality(wrong)
            /\ {<<f[1], f[2], f[3]>> : f \in Range(failures)}
                 = {<<i, Prediction(i), At(labels, i - 1)>> : i \in wrong}
            /\ Scored /\ total > 0 => accuracy[1] * total = correct_count * accuracy[2]
\* the failures were recorded out of index order
C8_Witness ==
    /\ pc = "score"
    /\ \E k \in 1..(Len(failures) - 1) : failures[k][1] > failures[k + 1][1]

\* C9: the accuracy of a completed pass is a number in [0.0, 1.0] (correct_count
\* never exceeds total), and it is 0.0 when no window was scored.
C9_AccuracyInUnitInterval ==
    /\ correct_count <= total
    /\ accuracy # NoValue =>
         /\ accuracy # NaN /\ accuracy[2] > 0
         /\ Leq(Zero, accuracy) /\ Leq(accuracy, <<1, 1>>)
         /\ total = 0 => accuracy = Zero
    /\ res # NoValue => res # NaN /\ Leq(Zero, res) /\ Leq(res, <<1, 1>>)
\* a pass that scored no window
C9_Witness == pc = "return" /\ total = 0 /\ accuracy = Zero

\* C10: label_candles returns one label per candle of a series of 1 or more
\* candles, and the last label is None.
C10_OneLabelPerCandle ==
    pc = "labelled" /\ Len(eth_candles) >= 1 =>
        /\ Len(labels) = Len(eth_candles)
        /\ labels[Len(labels)] = "None"
\* a series of one candle, and a longer one whose first label is not None
C10_Witness ==
    /\ pc = "labelled"
    /\ Len(eth_candles) > 1
    /\ labels[1] # "None"

\* C11: for every adjacent pair (current c, next n) of the series, c is labelled
\* Short when n.high >= c.close * LONG_THRESHOLD and n.low <= c.close *
\* SHORT_THRESHOLD both hold, Long when only the first holds, Short when only the
\* second holds and None when neither holds; the labels are a function of the
\* series alone (the labeler leaves every other part of the state as it was).
C11_TieBreakShort ==
    /\ [](pc = "labelled" =>
            \A k \in 1..(Len(eth_candles) - 1) :
                LET c == eth_candles[k]
                    n == eth_candles[k + 1]
                    up == At(n, HIGH) * THRESHOLD_SCALE >= At(c, CLOSE) * LONG_THRESHOLD
                    down == At(n, LOW) * THRESHOLD_SCALE <= At(c, CLOSE) * SHORT_THRESHOLD
                IN  /\ up /\ down => labels[k] = "Short"
                    /\ up /\ ~down => labels[k] = "Long"
                    /\ ~up /\ down => labels[k] = "Short"
                    /\ ~up /\ ~down => labels[k] = "None")
    /\ [][pc = "label" =>
            /\ eth_candles' = eth_candles
            /\ \A k \in 1..(Len(eth_candles) - 1) :
                  \A j \in 1..(Len(eth_candles) - 1) :
                    eth_candles[k] = eth_candles[j] /\ eth_candles[k + 1] = eth_candles[j + 1]
                        => labels'[k] = labels'[j]]_vars
\* a pair that meets both conditions, and a pair that meets only the first
C11_Witness ==
    /\ pc = "labelled"
    /\ Len(eth_candles) = 3
    /\ At(eth_candles[2], HIGH) = 1050 /\ At(eth_candles[2], LOW) = 950
    /\ At(eth_candles[1], CLOSE) = 1000
    /\ labels[1] = "Short"
    /\ At(eth_candles[3], HIGH) = 1050 /\ At(eth_candles[3], LOW) = 951
    /\ At(eth_candles[2], CLOSE) = 1000
    /\ labels[2] = "Long"

\* C12: every candle whose successor has a high >= close * 1.003 and a low >
\* close * 0.997 is labelled Long (so is one whose successor's high is 1 % above
\* its close and whose successor's low equals its close), and the last candle is
\* labelled None.
C12_LongAtThreeTenths ==
    pc = "labelled" /\ Len(eth_candles) >= 1 =>
        /\ labels[Len(labels)] = "None"
        /\ \A k \in 1..(Len(eth_candles) - 1) :
              LET c == eth_candles[k]
                  n == eth_candles[k + 1]
              IN  At(n, HIGH) * 1000 >= At(c, CLOSE) * 1003
                    /\ At(n, LOW) * 1000 > At(c, CLOSE) * 997
                  => labels[k] = "Long"

\* C13: a window call is scheduled for an end index i, 24 <= i < len(ETH), only if
\* the BTC and the SOL series each have at least i candles; every window built is
\* the 24 candles at the indices [i - 24, i) of each of the three series, all of
\* them inside the series.
AllSeries == <<eth_candles, btc_candles, sol_candles>>
C13_WindowsAlignedInRange ==
    /\ \A t \in in_progress :
          /\ t.i >= CANDLE_HOURS /\ t.i < Len(eth_candles)
          /\ Len(btc_candles) >= t.i /\ Len(sol_candles) >= t.i
          /\ t.lo = t.i - CANDLE_HOURS /\ t.hi = t.i
          /\ 0 <= t.lo /\ t.hi - t.lo = CANDLE_HOURS
          /\ \A s \in 1..3 :
                /\ t.hi <= Len(AllSeries[s])
                /\ LET slice == Slice(AllSeries[s], t.lo, t.hi)
                   IN  /\ Len(slice) = CANDLE_HOURS
                       /\ At(slice, 0) = At(AllSeries[s], t.i - CANDLE_HOURS)
                       /\ At(slice, CANDLE_HOURS - 1) = At(AllSeries[s], t.i - 1)
    /\ \A i \in yielded :
          /\ i >= CANDLE_HOURS /\ i < Len(eth_candles)
          /\ Len(btc_candles) >= i /\ Len(sol_candles) >= i
\* the BTC series ends before the ETH series: the window that ends with the last BTC
\* candle is in flight, the windows after it were passed over
C13_Witness ==
    /\ pc = "await"
    /\ Len(btc_candles) < Len(eth_candles) - 1
    /\ {t.i : t \in in_progress} = CANDLE_HOURS..Len(btc_candles)
    /\ range_next = Len(eth_candles)

\* C14: load_or_fetch asks the exchange for a symbol only when the symbol has no
\* cache file; once a fetch has succeeded and been stored, the cache file is never
\* written again and every later load of the symbol, in any later pass or run and
\* whatever the exchange would answer by then, returns the series first fetched.
LoadedSeries ==
    [ETH |-> [at |-> {"load_btc", "load_sol", "prepare", "poll", "await", "score",
                      "improve", "return"},
              candles |-> eth_candles],
     BTC |-> [at |-> {"load_sol", "prepare", "poll", "await", "score", "improve",
                      "return"},
              candles |-> btc_candles],
     SOL |-> [at |-> {"prepare", "poll", "await", "score", "improve", "return"},
              candles |-> sol_candles]]
C14_CacheMasksExchange ==
    /\ [][\A s \in Symbols :
            /\ fetching' = s => ~cache_file[s].exists
            /\ cache_file[s].exists => cache_file'[s] = cache_file[s]
            /\ ~cache_file[s].exists /\ cache_file'[s].exists =>
                  /\ fetching' = s
                  /\ cache_file'[s].data
                       = ExchangeFeed(s, setup.market[s], Now(s))]_vars
    /\ [](\A s \in Symbols :
            pc \in LoadedSeries[s].at =>
                /\ cache_file[s].exists
                /\ LoadedSeries[s].candles = candles_to_array(cache_file[s].data))
\* a later run has loaded the ETH series from the cache without a call of the
\* exchange, which would by now answer with another series
C14_Witness ==
    /\ runs > 1
    /\ pc = "load_btc"
    /\ fetching = NoSymbol
    /\ cache_file["ETH"].data # ExchangeFeed("ETH", setup.market["ETH"], Now("ETH"))
    /\ eth_candles = candles_to_array(cache_file["ETH"].data)

\* C15: when a pass returns an error the run is over with that error: the process
\* takes no further step (no pass is started, no window, improver or exchange call
\* is made, no file is written; the only thing that follows is a new run of the
\* program), and the records the completed passes of the run appended are still
\* in the ledger, in their order and unchanged.
C15_ErrorEndsRun ==
    /\ [][pc = "failed" =>
            /\ runs' = runs + 1 /\ pc' = "main"
            /\ fetching' = NoSymbol /\ in_progress' = {} /\ improver_calls' = 0
            /\ UNCHANGED <<files, appended>>]_vars
    /\ [](pc = "failed" =>
            LET own == IF accuracy # NoValue THEN 1 ELSE 0
                n == Len(appended)
                ledger == history_file.data
            IN  /\ error # NoError
                /\ passes = counter + 1
                /\ in_progress = {}
                /\ n >= counter + own
                /\ counter + own > 0 =>
                      /\ history_file.exists
                      /\ Len(ledger) >= counter + own
                      /\ \A k \in 1..counter :
                            ledger[Len(ledger) - own - counter + k]
                              = appended[n - own - counter + k])
\* a pass failed after others of the run had completed
C15_Witness ==
    /\ pc = "failed"
    /\ counter > 1
    /\ accuracy = NoValue
    /\ Len(history_file.data) >= counter

\* C16: a pass that completes has added exactly one record to the ledger it found:
\* the record's prompt is the base prompt read at the start of the pass (not the
\* text the improver wrote), its score the accuracy of the pass, and it is added
\* whether or not the ledger holds that prompt already; when every record was
\* appended by a completed pass, the ledger holds min(k, 10) records after k
\* completed passes.
C16_OneRecordPerPass ==
    /\ completed <= Len(appended)
    /\ pc \in {"return", "done"} \/ (pc = "main" /\ counter > 0) =>
          LET before == IF at_start.history.exists THEN at_start.history.data ELSE <<>>
              after == Append(before, [prompt |-> at_start.prompt, score |-> accuracy])
              n == Len(after)
          IN  /\ base_prompt = at_start.prompt
              /\ history_file.exists
              /\ history_file.data =
                    IF n > HISTORY_LIMIT THEN SubSeq(after, n - HISTORY_LIMIT + 1, n) ELSE after
    /\ pc \in {"main", "done"} /\ Len(appended) = completed =>
          Len(IF history_file.exists THEN history_file.data ELSE <<>>)
            = Min(completed, HISTORY_LIMIT)
\* more than ten passes have completed and the last one appended the record the
\* ledger ended with already (the improver had returned the text it was given)
C16_Witness ==
    /\ pc = "done"
    /\ completed > HISTORY_LIMIT /\ Len(appended) = completed
    /\ history_file.data[HISTORY_LIMIT] = history_file.data[HISTORY_LIMIT - 1]
    /\ prompt_file = at_start.prompt

\* C17: in a pass with a failure the improver is called only after every window
\* result is tallied and the ledger, this pass's record included (1 to 10 records),
\* is written; prompt.txt is then overwritten with the text the improver returned;
\* and the next pass of the run evaluates exactly that text as its base prompt.
ImproverTexts(prompt) ==
    {r.text : r \in {x \in ImproverResponses(setup.model, prompt) : x.ok}}
C17_LedgerThenImproverThenPrompt ==
    /\ pc = "improve" =>
          /\ failures # <<>>
          /\ in_progress = {} /\ range_next >= Len(eth_candles)
          /\ yielded = EligibleWindows /\ total = Cardinality(yielded)
          /\ accuracy # NoValue
          /\ improver_calls = 0
          /\ prompt_file = at_start.prompt
          /\ history_file.exists
          /\ Len(history_file.data) >= 1 /\ Len(history_file.data) <= HISTORY_LIMIT
          /\ history_file.data[Len(history_file.data)]
               = [prompt |-> base_prompt, score |-> accuracy]
    /\ (pc \in {"return", "done"} \/ (pc = "main" /\ counter > 0)) /\ failures # <<>> =>
          /\ improver_calls = 1
          /\ prompt_file \in ImproverTexts(base_prompt)
          /\ history_file.data[Len(history_file.data)]
               = [prompt |-> base_prompt, score |-> accuracy]
    /\ pc \in {"poll", "await", "score", "improve"} =>
          /\ base_prompt = prompt_file
          /\ \A t \in in_progress : t.prompt = base_prompt
          /\ counter > 0 /\ pc \in {"poll", "await", "score"} =>
                LET prev == appended[Len(appended)]
                IN  IF EligibleWindows # {}
                    THEN base_prompt \in ImproverTexts(prev.prompt)
                    ELSE base_prompt = prev.prompt
\* the second pass of a run evaluates the text the improver wrote at the end of the
\* first, another text than the first pass evaluated
C17_Witness ==
    /\ pc = "await"
    /\ counter = 1
    /\ base_prompt # appended[Len(appended)].prompt
    /\ \E t \in in_progress : t.prompt = base_prompt

\* C18: the accuracy and the failure list exist only once every scheduled window
\* call has completed: while calls are polled nothing is handed to the ledger or the
\* improver, and when the loop is left after well-formed responses only, every
\* eligible index i (24 <= i < len(ETH), len(BTC) >= i, len(SOL) >= i) has been
\* scored exactly once.
C18_AllWindowsScoredOnce ==
    /\ pc \in {"poll", "await"} =>
          /\ accuracy = NoValue
          /\ history_file = at_start.history /\ prompt_file = at_start.prompt
          /\ improver_calls = 0
          /\ total = Cardinality(yielded)
          /\ yielded \cap {t.i : t \in in_progress} = {}
    /\ pc \in {"score", "improve", "return"} =>
          LET eligible == { i \in CANDLE_HOURS..(Len(eth_candles) - 1) :
                             Len(btc_candles) >= i /\ Len(sol_candles) >= i }
          IN  /\ in_progress = {}
              /\ yielded = eligible
              /\ total = Cardinality(eligible)
              /\ total = correct_count + Len(failures)
              /\ {f[1] : f \in Range(failures)} \subseteq eligible
              /\ Cardinality({f[1] : f \in Range(failures)}) = Len(failures)
\* more windows than the queue holds have all been scored, one of them wrongly
C18_Witness ==
    /\ pc = "score"
    /\ total > BUFFER_LIMIT
    /\ total = Len(eth_candles) - CANDLE_HOURS
    /\ failures # <<>>

\* C19: a window response whose "action" is a string other than "long", "short" and
\* "none" is no error: it is the prediction None for that window, correct exactly
\* when labels[i - 1] is None and a failure otherwise; a pass answered this way
\* throughout counts the windows labelled None as correct and lists the others.
Unrecognized(response) ==
    /\ response.ok /\ response.text.body = "json"
    /\ response.text.action \notin {Absent, NonString, "long", "short", "none"}
C19_UnknownActionIsNone ==
    /\ \A t \in in_progress :
        \A r \in WindowResponses(setup.model, t.prompt, t.i, t.label) :
          Unrecognized(r) =>
            LET out == query_model_and_compare(r, t.label)
                acc == Tally(out, t.i, [total |-> 0, correct_count |-> 0,
                                        failures |-> <<>>])
            IN  /\ out.ok /\ out.error = NoError
                /\ out.pred = "None"
                /\ out.label = At(labels, t.i - 1)
                /\ acc.total = 1
                /\ acc.correct_count = 1 <=> At(labels, t.i - 1) = "None"
                /\ acc.failures # <<>> <=> At(labels, t.i - 1) # "None"
    /\ pc \in {"score", "improve", "return"} /\ setup.model.style = "hold"
          /\ setup.model.good_from = Never =>
          LET eligible == { i \in CANDLE_HOURS..(Len(eth_candles) - 1) :
                             Len(btc_candles) >= i /\ Len(sol_candles) >= i }
              none == {i \in eligible : At(labels, i - 1) = "None"}
          IN  /\ total = Cardinality(eligible)
              /\ correct_count = Cardinality(none)
              /\ {<<f[1], f[2], f[3]>> : f \in Range(failures)}
                   = {<<i, "None", At(labels, i - 1)>> : i \in eligible \ none}
\* a pass answered "hold" throughout was scored: right on a window labelled None,
\* wrong on the others
C19_Witness ==
    /\ pc = "score"
    /\ setup.model.style = "hold"
    /\ correct_count > 0
    /\ failures # <<>>

\* C20: with fewer than 24 ETH candles the pass ends with the insufficient-data
\* error, whether or not prompt.txt could be read: the base prompt has not been
\* read, no window or improver call has been made, and neither the history file nor
\* prompt.txt has been written.
InsufficientData == "Not enough ETH candles to perform backtesting"
C20_TooFewCandlesAbortsFirst ==
    /\ pc \in {"poll", "await", "score", "improve", "return"} =>
          Len(eth_candles) >= CANDLE_HOURS
    /\ pc = "failed" /\ Len(eth_candles) < CANDLE_HOURS
          /\ error \notin {"fetch failed", "cache file unreadable"} =>
          error = InsufficientData
    /\ pc = "failed" /\ error = InsufficientData =>
          /\ Len(eth_candles) < CANDLE_HOURS
          /\ base_prompt = NoPrompt
          /\ in_progress = {} /\ yielded = {} /\ total = 0
          /\ accuracy = NoValue
          /\ improver_calls = 0
          /\ history_file = at_start.history
          /\ prompt_file = at_start.prompt
\* the exchange returned 23 ETH candles and the pass ended on them
C20_Witness ==
    /\ pc = "failed"
    /\ error = InsufficientData
    /\ Len(eth_candles) = CANDLE_HOURS - 1
    /\ Len(labels) = Len(eth_candles)

\* C21: whether the feed arrives most recent first or oldest first, the series
\* candles_to_array returns is in chronological order (times non-decreasing), as
\* long as the feed, and made of the feed's candles with the fields reordered from
\* (time, low, high, open, close, volume) to [time, open, high, low, close, volume].
TIME == 0
OldestFirst(feed) == \A k \in 1..(Len(feed) - 1) : feed[k][1] <= feed[k + 1][1]
NewestFirst(feed) == \A k \in 1..(Len(feed) - 1) : feed[k][1] >= feed[k + 1][1]
C21_NormalizedToChronological ==
    LET feed == cache_file["ETH"].data
    IN  pc = "converted" /\ (OldestFirst(feed) \/ NewestFirst(feed)) =>
            /\ Len(eth_candles) = Len(feed)
            /\ \A k \in 1..(Len(eth_candles) - 1) :
                  At(eth_candles[k], TIME) <= At(eth_candles[k + 1], TIME)
            /\ \A j \in 1..Len(feed) : \E k \in 1..Len(eth_candles) :
                  eth_candles[k] = <<feed[j][1], feed[j][4], feed[j][3], feed[j][2],
                                    feed[j][5], feed[j][6]>>

\* C22: the label a window i is scored against is labels[i - 1] with
\* 23 <= i - 1 <= len(ETH) - 2: an index inside the label sequence and never its
\* last place (whose label is None by construction), so the label is the one
\* computed from candle i - 1, the last of the window, and its successor, candle i.
C22_LabelFromRealSuccessor ==
    /\ pc \in {"poll", "await", "score", "improve", "return"} =>
          Len(labels) = Len(eth_candles)
    /\ \A t \in in_progress :
          /\ t.i - 1 >= CANDLE_HOURS - 1
          /\ t.i - 1 <= Len(eth_candles) - 2
          /\ t.i - 1 < Len(labels) - 1
          /\ t.label = At(labels, t.i - 1)
          /\ t.label = PairLabel(At(eth_candles, t.i - 1), At(eth_candles, t.i))
    /\ \A i \in yielded :
          /\ i - 1 >= CANDLE_HOURS - 1
          /\ i - 1 <= Len(eth_candles) - 2
    /\ \A k \in 1..Len(failures) :
          /\ failures[k][1] - 1 <= Len(labels) - 2
          /\ failures[k][3] = At(labels, failures[k][1] - 1)
\* the last window of the series was scored, wrongly, against a label that is not
\* None: the label of the last candle but one
C22_Witness ==
    /\ pc = "score"
    /\ Len(eth_candles) - 1 \in yielded
    /\ \E k \in 1..Len(failures) :
          /\ failures[k][1] = Len(eth_candles) - 1
          /\ failures[k][3] # "None"
          /\ failures[k][3] = At(labels, Len(labels) - 2)

\* C23: the improver runs on the pass that ends the run as well.  When that pass
\* (one with accuracy >= 0.7, or the tenth) had a failure, prompt.txt holds at the
\* end the text the improver returned in that pass; the last ledger record is that
\* of the prompt the pass evaluated; and the text in prompt.txt, when the improver
\* returned another text than the one it was given, has been evaluated by no pass
\* and has no ledger record.
LedgerPrompts == {appended[k].prompt : k \in 1..Len(appended)}
NoWindow ==
    /\ Len(eth_candles) >= CANDLE_HOURS
    /\ \/ Len(eth_candles) = CANDLE_HOURS
       \/ Len(btc_candles) < CANDLE_HOURS
       \/ Len(sol_candles) < CANDLE_HOURS
C24_NoWindowRunsToCap ==
    /\ [](NoWindow /\ pc \in {"poll", "await", "score", "improve", "return"} =>
            /\ pc \notin {"await", "improve"}
            /\ in_progress = {} /\ yielded = {}
            /\ total = 0 /\ failures = <<>>
            /\ improver_calls = 0
            /\ prompt_file = at_start.prompt
            /\ pc = "return" =>
                  /\ accuracy = Zero
                  /\ history_file.data[Len(history_file.data)]
                       = [prompt |-> base_prompt, score |-> Zero])
    /\ [](NoWindow /\ pc = "failed"
            /\ error \notin {"fetch failed", "cache file unreadable"} =>
            error = "Failed to read base prompt file")
    /\ [](NoWindow /\ pc = "main" /\ counter > 0 => counter < PASS_CAP /\ res = Zero)
    /\ [](NoWindow /\ pc = "done" =>
            /\ counter = PASS_CAP /\ res = Zero
            /\ Len(history_file.data) = HISTORY_LIMIT
            /\ \A k \in 1..HISTORY_LIMIT :
                  history_file.data[k] = [prompt |-> prompt_file, score |-> Zero])
    /\ (NoWindow /\ pc = "poll") ~> (pc = "failed" \/ (pc = "done" /\ counter = PASS_CAP))
\* ten passes over a series without an eligible window have completed
C24_Witness ==
    /\ NoWindow
    /\ pc = "done"
    /\ counter = PASS_CAP
    /\ Len(sol_candles) < CANDLE_HOURS
    /\ Len(history_file.data) = HISTORY_LIMIT

====
